---------------------------- MODULE Spec2Model ----------------------------
(***************************************************************************)
(* Model of src/streamlit.py: the Streamlit page of the Belgian real-      *)
(* estate price predictor.  One script run of main() performs GET /health, *)
(* reads the form widgets and, when the submit button was clicked, builds  *)
(* the payload, performs POST /predict and renders the outcome.  The theme *)
(* toggle (presentation only) is not modelled.                             *)
(*                                                                         *)
(* Python values are dynamically typed; they are modelled as tagged        *)
(* records [t |-> type name, v |-> value] so that None, 0, False and ""    *)
(* stay distinct values, as they are in a Python dict.                     *)
(*                                                                         *)
(* Library behaviour the model relies on:                                  *)
(*  - requests: timeout=N raises requests.Timeout (a RequestException)     *)
(*    when the server stays silent for N seconds; response.json() on a     *)
(*    body that is not JSON raises requests.JSONDecodeError, which is a    *)
(*    RequestException (requests >= 2.27); no automatic retry.             *)
(*  - Streamlit: one script thread per session; a widget interaction       *)
(*    during a run is queued and honoured at the next st.* call of the     *)
(*    running script, which aborts that run and starts the next one; an    *)
(*    uncaught exception ends the run and is shown as an exception box.    *)
(***************************************************************************)
EXTENDS Integers, Sequences, FiniteSets, TLC

\* ------------------------------------------------------------------ bounds
\* A form state differs from the widgets' defaults in at most MaxEdits widgets.
MaxEdits == 1
\* Script runs modelled per session (each run has a distinct id).
MaxRuns == 3
\* Seconds of waiting that one Tick step stands for.
TickSeconds == 10

\* ---------------------------------------------------------- Python values
PyInt(n) == [t |-> "int", v |-> n]
PyStr(s) == [t |-> "str", v |-> s]
PyBool(b) == [t |-> "bool", v |-> b]
None == [t |-> "NoneType", v |-> "None"]
PyDict(f) == [t |-> "dict", v |-> f]
PyList(s) == [t |-> "list", v |-> s]

\* The empty dict {}.
EmptyMap == [k \in {} |-> None]

\* Python truthiness of a value (bool(x)).
Truthy(x) ==
    CASE x.t = "NoneType" -> FALSE
      [] x.t = "bool" -> x.v
      [] x.t = "int" -> x.v # 0
      [] x.t = "str" -> x.v # ""
      [] x.t = "dict" -> DOMAIN x.v # {}
      [] x.t = "list" -> Len(x.v) > 0
      [] OTHER -> TRUE

\* ------------------------------------------------------------ form widgets
\* The local variables of main() that hold the widgets' values.
NumberWidgets ==
    {"bedrooms", "bathrooms", "habitable_surface", "toilets",
     "terrace_surface", "garden_surface"}

SelectWidgets == {"property_type", "province", "epc_score"}

TextWidgets == {"postal_code"}

CheckboxWidgets ==
    {"has_garden", "has_terrace", "has_fireplace", "has_living_room",
     "has_attic", "has_basement", "has_office", "has_dining_room",
     "has_dressing_room", "has_lift", "has_swimming_pool",
     "has_air_conditioning", "has_armored_door", "has_visiophone",
     "has_heat_pump", "has_photovoltaic"}

Widgets == NumberWidgets \cup SelectWidgets \cup TextWidgets \cup CheckboxWidgets

\* min_value, max_value of each st.number_input.
MinValue(w) == 0

MaxValue(w) ==
    CASE w = "bedrooms" -> 20
      [] w = "bathrooms" -> 10
      [] w = "habitable_surface" -> 1000
      [] w = "toilets" -> 5
      [] w = "terrace_surface" -> 200
      [] w = "garden_surface" -> 2000

PropertyTypes == {"APARTMENT", "HOUSE"}

\* The options of the province selectbox ("Liege" stands for the accented name).
Provinces ==
    {"Brussels", "Antwerp", "East Flanders", "West Flanders", "Flemish Brabant",
     "Walloon Brabant", "Hainaut", "Liege", "Luxembourg", "Namur", "Limburg"}

EpcScores == {"A+", "A", "B", "C", "D", "E", "F", "G"}

\* Texts typed into the postal code field (free text, may be empty).
PostalCodes == {"1000", "", "9000"}

\* The value each widget shows before the user touches it.
DefaultValue(w) ==
    CASE w = "property_type" -> PyStr("APARTMENT")
      [] w = "bedrooms" -> PyInt(2)
      [] w = "bathrooms" -> PyInt(1)
      [] w = "habitable_surface" -> PyInt(85)
      [] w = "province" -> PyStr("Brussels")
      [] w = "postal_code" -> PyStr("1000")
      [] w = "epc_score" -> PyStr("B")
      [] w = "toilets" -> PyInt(1)
      [] w = "terrace_surface" -> PyInt(0)
      [] w = "garden_surface" -> PyInt(0)
      [] w = "has_living_room" -> PyBool(TRUE)
      [] OTHER -> PyBool(FALSE)

\* Values a widget can return: the control itself keeps a number inside
\* [min_value, max_value] and a selection inside its options.  Numbers are
\* sampled at the minimum, just above it, the default and the maximum.
WidgetValues(w) ==
    CASE w \in NumberWidgets ->
            {PyInt(n) : n \in {MinValue(w), MinValue(w) + 1, DefaultValue(w).v, MaxValue(w)}}
      [] w = "property_type" -> {PyStr(s) : s \in PropertyTypes}
      [] w = "province" -> {PyStr(s) : s \in Provinces}
      [] w = "epc_score" -> {PyStr(s) : s \in EpcScores}
      [] w = "postal_code" -> {PyStr(s) : s \in PostalCodes}
      [] OTHER -> {PyBool(b) : b \in BOOLEAN}

DefaultForm == [w \in Widgets |-> DefaultValue(w)]

\* Number of widgets that differ from their default.
Edited(f) == Cardinality({w \in Widgets : f[w] # DefaultValue(w)})

\* ---------------------------------------------------------- payload builder
\* API key -> the local variable whose value it carries (lines 479-504).
KeyVar ==
    [type |-> "property_type",
     bedroomCount |-> "bedrooms",
     bathroomCount |-> "bathrooms",
     habitableSurface |-> "habitable_surface",
     province |-> "province",
     postCode |-> "postal_code",
     epcScore |-> "epc_score",
     toiletCount |-> "toilets",
     terraceSurface |-> "terrace_surface",
     gardenSurface |-> "garden_surface",
     hasGarden |-> "has_garden",
     hasTerrace |-> "has_terrace",
     hasFireplace |-> "has_fireplace",
     hasLivingRoom |-> "has_living_room",
     hasAttic |-> "has_attic",
     hasBasement |-> "has_basement",
     hasOffice |-> "has_office",
     hasDiningRoom |-> "has_dining_room",
     hasDressingRoom |-> "has_dressing_room",
     hasLift |-> "has_lift",
     hasSwimmingPool |-> "has_swimming_pool",
     hasAirConditioning |-> "has_air_conditioning",
     hasArmoredDoor |-> "has_armored_door",
     hasVisiophone |-> "has_visiophone",
     hasHeatPump |-> "has_heat_pump",
     hasPhotovoltaicPanels |-> "has_photovoltaic"]

PayloadKeys == DOMAIN KeyVar

OptionalKeys == {"terraceSurface", "gardenSurface"}

\* Mutant of OptionalSurface: a zero surface is sent as 0.
OptionalSurfaceSendsZero(x) == IF x.v >= 0 THEN x ELSE None

\* `x if x > 0 else None` (lines 487-488).
OptionalSurface(x) == IF x.v > 0 THEN x ELSE None

\* The dict literal assigned to prediction_data (lines 478-505).
PredictionDataLiteral(f) ==
    [k \in PayloadKeys |->
        IF k \in OptionalKeys THEN OptionalSurface(f[KeyVar[k]])
        ELSE f[KeyVar[k]]]

\* Mutant of RemoveNone: every falsy value is dropped (`if v`).
RemoveFalsy(d) == [k \in {j \in DOMAIN d : Truthy(d[j])} |-> d[k]]

\* Mutant of RemoveNone: the placeholders are left in the dict.
RemoveNothing(d) == d

\* {k: v for k, v in prediction_data.items() if v is not None} (line 508).
RemoveNone(d) == [k \in {j \in DOMAIN d : d[j].t # "NoneType"} |-> d[k]]

\* The payload handed to make_prediction for form state f.
BuildPayload(f) == RemoveNone(PredictionDataLiteral(f))

\* ------------------------------------------------------- network and JSON
API_BASE_URL == "https://immo-eliza-deployment-01ya.onrender.com"

\* timeout=10 of requests.get, timeout=30 of requests.post (seconds of silence
\* after which requests raises Timeout).
HealthTimeout == 10
PredictTimeout == 30

Timeout(call) == IF call = "health" THEN HealthTimeout ELSE PredictTimeout

\* Mutant of TimedOut: timeout=None, the call waits for ever.
NeverTimedOut(call, elapsed) == FALSE

\* Whether requests gives up on a server silent for `elapsed` seconds.
TimedOut(call, elapsed) == elapsed >= Timeout(call)

\* Response bodies the backend (or a proxy in front of it) can send.
HealthBodies == {"{\"status\": \"healthy\"}", "Service Unavailable"}

PredictBodies ==
    {"{\"predicted_price\": 275000, \"currency\": \"EUR\"}",
     "{\"predicted_price\": 275000}",
     "{\"predicted_price\": 1250, \"currency\": \"USD\", \"timestamp\": \"2025-06-01T12:00:00\", \"input_summary\": {\"type\": \"HOUSE\"}}",
     "{\"predicted_price\": 99, \"timestamp\": \"2025-06-01T12:00:00\"}",
     "{\"currency\": \"EUR\", \"input_summary\": {}}",
     "{\"predicted_price\": \"n/a\", \"timestamp\": \"2025-06-01T12:00:00\"}",
     "{\"predicted_price\": null, \"currency\": \"EUR\"}",
     "[275000]",
     "model unavailable",
     ""}

\* Bodies that come with an error status.
ErrorBodies == {"model unavailable", ""}

OK == 200
HealthErrorCodes == {503}
PredictErrorCodes == {500}

\* Messages of the transport exceptions (str(e)) other than the timeout.
TransportErrors == {"Connection refused"}

TimeoutMessage(call) == "Read timed out. (read timeout=" \o ToString(Timeout(call)) \o ")"

Response(code, body) == [t |-> "Response", status_code |-> code, text |-> body]
RequestException(m) == [t |-> "RequestException", msg |-> m]
NoCall == [t |-> "NoCall"]

\* What requests.get / requests.post can deliver before the timeout expires.
Answers(call) ==
    {RequestException(m) : m \in TransportErrors} \cup
    (IF call = "health"
     THEN {Response(OK, b) : b \in HealthBodies} \cup
          {Response(c, b) : c \in HealthErrorCodes, b \in ErrorBodies}
     ELSE {Response(OK, b) : b \in PredictBodies} \cup
          {Response(c, b) : c \in PredictErrorCodes, b \in ErrorBodies})

Parsed(x) == [ok |-> TRUE, value |-> x]
JSONDecodeError == [ok |-> FALSE, msg |-> "Expecting value: line 1 column 1 (char 0)"]

Obj1(k1, v1) == PyDict([k \in {k1} |-> v1])
Obj2(k1, v1, k2, v2) == PyDict([k \in {k1, k2} |-> IF k = k1 THEN v1 ELSE v2])

\* response.json(): the parsed body, or JSONDecodeError when it is not JSON.
Json(text) ==
    CASE text = "{\"status\": \"healthy\"}" ->
            Parsed(Obj1("status", PyStr("healthy")))
      [] text = "{\"predicted_price\": 275000, \"currency\": \"EUR\"}" ->
            Parsed(Obj2("predicted_price", PyInt(275000), "currency", PyStr("EUR")))
      [] text = "{\"predicted_price\": 275000}" ->
            Parsed(Obj1("predicted_price", PyInt(275000)))
      [] text = "{\"predicted_price\": 1250, \"currency\": \"USD\", \"timestamp\": \"2025-06-01T12:00:00\", \"input_summary\": {\"type\": \"HOUSE\"}}" ->
            Parsed(PyDict([k \in {"predicted_price", "currency", "timestamp", "input_summary"} |->
                CASE k = "predicted_price" -> PyInt(1250)
                  [] k = "currency" -> PyStr("USD")
                  [] k = "timestamp" -> PyStr("2025-06-01T12:00:00")
                  [] k = "input_summary" -> Obj1("type", PyStr("HOUSE"))]))
      [] text = "{\"predicted_price\": 99, \"timestamp\": \"2025-06-01T12:00:00\"}" ->
            Parsed(Obj2("predicted_price", PyInt(99), "timestamp", PyStr("2025-06-01T12:00:00")))
      [] text = "{\"currency\": \"EUR\", \"input_summary\": {}}" ->
            Parsed(Obj2("currency", PyStr("EUR"), "input_summary", PyDict(EmptyMap)))
      [] text = "{\"predicted_price\": \"n/a\", \"timestamp\": \"2025-06-01T12:00:00\"}" ->
            Parsed(Obj2("predicted_price", PyStr("n/a"), "timestamp", PyStr("2025-06-01T12:00:00")))
      [] text = "{\"predicted_price\": null, \"currency\": \"EUR\"}" ->
            Parsed(Obj2("predicted_price", None, "currency", PyStr("EUR")))
      [] text = "[275000]" -> Parsed(PyList(<<PyInt(275000)>>))
      [] OTHER -> JSONDecodeError

\* The (ok, data) pair both helpers return.
Pair(ok, data) == [ok |-> ok, data |-> data]

\* check_api_health(), given what requests.get delivered.
check_api_health(o) ==
    IF o.t = "Response"
    THEN IF o.status_code = 200
         THEN IF Json(o.text).ok
              THEN Pair(TRUE, Json(o.text).value)
              ELSE Pair(FALSE, PyStr(Json(o.text).msg))
         ELSE Pair(FALSE, None)
    ELSE Pair(FALSE, PyStr(o.msg))

\* make_prediction(data), given what requests.post delivered.
make_prediction(o) ==
    IF o.t = "Response"
    THEN IF o.status_code = 200
         THEN IF Json(o.text).ok
              THEN Pair(TRUE, Json(o.text).value)
              ELSE Pair(FALSE, PyStr("Connection Error: " \o Json(o.text).msg))
         ELSE Pair(FALSE, PyStr("API Error: " \o ToString(o.status_code) \o " - " \o o.text))
    ELSE Pair(FALSE, PyStr("Connection Error: " \o o.msg))

\* The HTTP requests one call of a helper puts on the wire.
HttpRequest(method, path, data) ==
    [method |-> method, url |-> API_BASE_URL \o path, json |-> data]

\* Mutant of Requests: the request is issued a second time.
RequestsTwice(call, data) ==
    IF call = "health"
    THEN <<HttpRequest("GET", "/health", EmptyMap), HttpRequest("GET", "/health", EmptyMap)>>
    ELSE <<HttpRequest("POST", "/predict", data), HttpRequest("POST", "/predict", data)>>

\* requests.get(...) in check_api_health, requests.post(...) in make_prediction.
Requests(call, data) ==
    IF call = "health"
    THEN <<HttpRequest("GET", "/health", EmptyMap)>>
    ELSE <<HttpRequest("POST", "/predict", data)>>

\* ---------------------------------------------------------------- rendering
\* str(x), as an f-string interpolates a value.
FormatStr(x) ==
    CASE x.t = "str" -> x.v
      [] x.t = "NoneType" -> "None"
      [] x.t = "int" -> ToString(x.v)
      [] x.t = "bool" -> (IF x.v THEN "True" ELSE "False")
      [] OTHER -> "{...}"

\* dict.get(key, default)
Get(d, key, default) == IF key \in DOMAIN d.v THEN d.v[key] ELSE default

Pad3(n) == IF n < 10 THEN "00" \o ToString(n)
           ELSE IF n < 100 THEN "0" \o ToString(n) ELSE ToString(n)

RECURSIVE Grouped(_)
Grouped(n) == IF n < 1000 THEN ToString(n)
              ELSE Grouped(n \div 1000) \o "," \o Pad3(n % 1000)

\* f"{x:,.2f}" for a non-negative whole number.
FormatMoney(n) == Grouped(n) \o ".00"

\* The format spec ,.2f accepts numbers only: a str raises ValueError, None
\* and containers raise TypeError.
FormatError(x) ==
    CASE x.t \in {"int", "bool"} -> "none"
      [] x.t = "str" -> "ValueError"
      [] OTHER -> "TypeError"

NoView == [kind |-> "none"]
Spinner(run) == [kind |-> "spinner", run |-> run]
ExceptionBox(run, e) == [kind |-> "exception", run |-> run, error |-> e]

\* Mutant of DefaultCurrency.
DefaultCurrencyUSD == "USD"

\* The default of result.get('currency', 'EUR') (line 520).
DefaultCurrency == "EUR"

\* if 'input_summary' in result (line 528).
ShowSummary(result) == "input_summary" \in DOMAIN result.v

\* result.get('timestamp', 'N/A') interpolated into st.success (line 525).
CompletedAt(result) == FormatStr(Get(result, "timestamp", PyStr("N/A")))

\* The success branch (lines 514-530): the prediction block, or the uncaught
\* exception that ends the run before anything of it is rendered.
RenderSuccess(result, run) ==
    IF result.t # "dict"
    THEN ExceptionBox(run, "AttributeError")
    ELSE LET predicted_price == Get(result, "predicted_price", PyInt(0)) IN
         IF FormatError(predicted_price) # "none"
         THEN ExceptionBox(run, FormatError(predicted_price))
         ELSE [kind |-> "prediction",
               run |-> run,
               price |-> FormatMoney(IF predicted_price.t = "bool"
                                     THEN (IF predicted_price.v THEN 1 ELSE 0)
                                     ELSE predicted_price.v),
               currency |-> FormatStr(Get(result, "currency", PyStr(DefaultCurrency))),
               completed_at |-> CompletedAt(result),
               summary_shown |-> ShowSummary(result),
               input_summary |-> IF ShowSummary(result)
                                 THEN result.v["input_summary"] ELSE None]

\* The failure branch (lines 532-538).
RenderFailure(result, run) ==
    [kind |-> "error", run |-> run, message |-> FormatStr(result)]

\* if success: ... else: ... (lines 514-538)
RenderOutcome(p, run) ==
    IF p.ok THEN RenderSuccess(p.data, run) ELSE RenderFailure(p.data, run)

\* The sidebar block (lines 364-374).
RenderSidebar(h) ==
    IF h.ok
    THEN [kind |-> "success", json_shown |-> Truthy(h.data)]
    ELSE [kind |-> "error", text |-> "Error: " \o FormatStr(h.data)]

\* ------------------------------------------------------------------- state
VARIABLES
    form,        \* the widgets' values (widget name -> value)
    runs,        \* number of script runs started; the id of the current run
    pc,          \* "idle" (no run), "health" (in requests.get), "predict" (in requests.post)
    trigger,     \* the button that is True in the current run, or "none"
    pending,     \* a click queued while the script is blocked in a call
    clock,       \* seconds the call in flight has been waiting
    wire,        \* the HTTP requests the current run has issued
    got,         \* what the network delivered to the current run's calls
    health,      \* health_status, health_data
    prediction,  \* success, result
    sidebar,     \* what the current run rendered in the sidebar
    view,        \* what the current run rendered below the submit button
    returned     \* the latest return of a helper to main(): run, call, ok, and
                 \* whether the server had stayed silent until the timeout

vars == <<form, runs, pc, trigger, pending, clock, wire, got,
          health, prediction, sidebar, view, returned>>

Buttons == {"submit", "refresh"}
Calls == {"health", "predict"}
Unset == [ok |-> FALSE, data |-> None, set |-> FALSE]
Result(p) == [ok |-> p.ok, data |-> p.data, set |-> TRUE]

Init ==
    /\ form = DefaultForm
    /\ runs = 0
    /\ pc = "idle"
    /\ trigger = "none"
    /\ pending = "none"
    /\ clock = 0
    /\ wire = <<>>
    /\ got = [health |-> NoCall, predict |-> NoCall]
    /\ health = Unset
    /\ prediction = Unset
    /\ sidebar = NoView
    /\ view = NoView
    /\ returned = [run |-> 0, call |-> "none", ok |-> FALSE, silent |-> FALSE]

\* Script runs a click costs: the refresh button ends its run with
\* st.rerun() (lines 570-571), which starts another one.
RunsNeeded(b) == IF b = "refresh" THEN 2 ELSE 1

\* A script run with id n starts with button b True and executes main() down
\* to requests.get in check_api_health (lines 345-366, 319-322).
RunToHealth(b, n) ==
    /\ runs' = n
    /\ trigger' = b
    /\ pending' = "none"
    /\ pc' = "health"
    /\ clock' = 0
    /\ wire' = Requests("health", EmptyMap)
    /\ got' = [health |-> NoCall, predict |-> NoCall]
    /\ health' = Unset
    /\ prediction' = Unset
    /\ sidebar' = NoView
    /\ view' = NoView

\* The rerun that follows a user interaction or st.rerun().
StartRun(b) == RunToHealth(b, runs + 1)

\* The browser opens the page: the first script run.
OpenPage ==
    /\ runs = 0
    /\ StartRun("none")
    /\ UNCHANGED <<form, returned>>

\* The user changes one widget of the form while no run is in progress.
EditWidget(w, v) ==
    /\ pc = "idle"
    /\ runs >= 1
    /\ runs + 1 <= MaxRuns
    /\ v # form[w]
    /\ Edited([form EXCEPT ![w] = v]) <= MaxEdits
    /\ form' = [form EXCEPT ![w] = v]
    /\ StartRun("none")
    /\ UNCHANGED returned

\* The user clicks a button: at once when the script is idle, queued when it
\* is blocked in a network call.
Click(b) ==
    /\ runs >= 1
    /\ runs + RunsNeeded(b) <= MaxRuns
    /\ IF pc = "idle"
       THEN /\ StartRun(b)
            /\ UNCHANGED <<form, returned>>
       ELSE /\ pending = "none"
            /\ pending' = b
            /\ UNCHANGED <<form, runs, pc, trigger, clock, wire, got,
                           health, prediction, sidebar, view, returned>>

ClickSubmit == Click("submit")
ClickRefresh == Click("refresh")

\* Time passes while a call waits for the server.
Tick ==
    /\ pc \in Calls
    /\ clock < Timeout(pc)
    /\ clock' = clock + TickSeconds
    /\ UNCHANGED <<form, runs, pc, trigger, pending, wire, got,
                   health, prediction, sidebar, view, returned>>

\* Mutant of HealthReturns: the submission is dropped when the health check
\* reported the backend unhealthy.
HealthReturnsGated(o, silent) ==
    LET h == check_api_health(o) IN
    /\ pc = "health"
    /\ returned' = [run |-> runs, call |-> "health", ok |-> h.ok, silent |-> silent]
    /\ IF pending # "none"
       THEN /\ StartRun(pending)
            /\ UNCHANGED form
       ELSE IF trigger = "refresh"
       THEN /\ StartRun("none")
            /\ UNCHANGED form
       ELSE /\ got' = [got EXCEPT !.health = o]
            /\ health' = Result(h)
            /\ sidebar' = RenderSidebar(h)
            /\ IF trigger = "submit" /\ h.ok
               THEN /\ pc' = "predict"
                    /\ clock' = 0
                    /\ wire' = wire \o Requests("predict", BuildPayload(form))
                    /\ view' = Spinner(runs)
               ELSE /\ pc' = "idle"
                    /\ UNCHANGED <<clock, wire, view>>
            /\ UNCHANGED <<form, runs, trigger, pending, prediction>>

\* main() from the return of check_api_health to its next blocking point
\* (lines 366-512, 570-571), given what requests.get delivered.
HealthReturns(o, silent) ==
    LET h == check_api_health(o) IN
    /\ pc = "health"
    /\ returned' = [run |-> runs, call |-> "health", ok |-> h.ok, silent |-> silent]
    /\ IF pending # "none"
       THEN /\ StartRun(pending)
            /\ UNCHANGED form
       ELSE IF trigger = "refresh"
       THEN /\ StartRun("none")
            /\ UNCHANGED form
       ELSE /\ got' = [got EXCEPT !.health = o]
            /\ health' = Result(h)
            /\ sidebar' = RenderSidebar(h)
            /\ IF trigger = "submit"
               THEN /\ pc' = "predict"
                    /\ clock' = 0
                    /\ wire' = wire \o Requests("predict", BuildPayload(form))
                    /\ view' = Spinner(runs)
               ELSE /\ pc' = "idle"
                    /\ UNCHANGED <<clock, wire, view>>
            /\ UNCHANGED <<form, runs, trigger, pending, prediction>>

\* Mutant of PredictReturns: the outcome is rendered although a newer click
\* is waiting, so a late response shows up in the run that follows.
PredictReturnsLate(o, silent) ==
    LET p == make_prediction(o) IN
    /\ pc = "predict"
    /\ returned' = [run |-> runs, call |-> "predict", ok |-> p.ok, silent |-> silent]
    /\ IF pending # "none"
       THEN /\ runs' = runs + 1
            /\ trigger' = pending
            /\ pending' = "none"
            /\ pc' = "health"
            /\ clock' = 0
            /\ wire' = Requests("health", EmptyMap)
            /\ got' = [health |-> NoCall, predict |-> NoCall]
            /\ health' = Unset
            /\ prediction' = Unset
            /\ sidebar' = NoView
            /\ view' = RenderOutcome(p, runs)
            /\ UNCHANGED form
       ELSE /\ got' = [got EXCEPT !.predict = o]
            /\ prediction' = Result(p)
            /\ view' = RenderOutcome(p, runs)
            /\ pc' = "idle"
            /\ UNCHANGED <<form, runs, trigger, pending, clock, wire,
                           health, sidebar>>

\* main() from the return of make_prediction to the end of the script
\* (lines 512-581), given what requests.post delivered.
PredictReturns(o, silent) ==
    LET p == make_prediction(o) IN
    /\ pc = "predict"
    /\ returned' = [run |-> runs, call |-> "predict", ok |-> p.ok, silent |-> silent]
    /\ IF pending # "none"
       THEN /\ StartRun(pending)
            /\ UNCHANGED form
       ELSE /\ got' = [got EXCEPT !.predict = o]
            /\ prediction' = Result(p)
            /\ view' = RenderOutcome(p, runs)
            /\ pc' = "idle"
            /\ UNCHANGED <<form, runs, trigger, pending, clock, wire,
                           health, sidebar>>

\* The server (or the transport) answers before the timeout expires.
HealthAnswers == clock < Timeout("health") /\ \E o \in Answers("health") : HealthReturns(o, FALSE)
PredictAnswers == clock < Timeout("predict") /\ \E o \in Answers("predict") : PredictReturns(o, FALSE)

\* The server stayed silent for the whole timeout: requests raises Timeout.
HealthTimesOut ==
    /\ TimedOut("health", clock)
    /\ HealthReturns(RequestException(TimeoutMessage("health")), TRUE)

PredictTimesOut ==
    /\ TimedOut("predict", clock)
    /\ PredictReturns(RequestException(TimeoutMessage("predict")), TRUE)

Next ==
    \/ OpenPage
    \/ \E w \in Widgets : \E v \in WidgetValues(w) : EditWidget(w, v)
    \/ ClickSubmit
    \/ ClickRefresh
    \/ Tick
    \/ HealthAnswers
    \/ HealthTimesOut
    \/ PredictAnswers
    \/ PredictTimesOut

Spec == Init /\ [][Next]_vars

\* Time passes, and requests raises Timeout once the timeout has expired; the
\* server is not obliged to answer.
FairSpec ==
    /\ Spec
    /\ WF_vars(Tick)
    /\ WF_vars(HealthTimesOut)
    /\ WF_vars(PredictTimesOut)

\* ------------------------------------------------------------------ claims
\* The payloads of the POST /predict requests the current run has issued.
PostedPayloads == {wire[i].json : i \in {j \in 1..Len(wire) : wire[j].method = "POST"}}

Count(method) == Cardinality({i \in 1..Len(wire) : wire[i].method = method})

StartsWith(str, prefix) ==
    Len(str) >= Len(prefix) /\ SubSeq(str, 1, Len(prefix)) = prefix

\* C1: the payload built on submit contains terraceSurface iff the terrace
\* surface entered is > 0, and gardenSurface iff the garden surface entered
\* is > 0; a key that is present carries exactly the value entered, and a
\* surface of 0 is never sent.
C1_OptionalSurfaces ==
    \A d \in PostedPayloads :
        /\ ("terraceSurface" \in DOMAIN d) <=> (form["terrace_surface"].v > 0)
        /\ ("gardenSurface" \in DOMAIN d) <=> (form["garden_surface"].v > 0)
        /\ "terraceSurface" \in DOMAIN d => d["terraceSurface"] = form["terrace_surface"]
        /\ "gardenSurface" \in DOMAIN d => d["gardenSurface"] = form["garden_surface"]
        /\ \A k \in OptionalKeys \cap DOMAIN d : d[k] # PyInt(0)

\* A submit with a terrace surface > 0 and a garden surface of 0.
C1_Witness ==
    /\ pc = "predict"
    /\ form["terrace_surface"].v > 0
    /\ form["garden_surface"].v = 0
    /\ \E d \in PostedPayloads :
          "terraceSurface" \in DOMAIN d /\ "gardenSurface" \notin DOMAIN d

\* C2: every field other than the two optional surfaces is in the payload
\* under its API key with exactly the value of the form, also when that value
\* is 0, false or the empty string.
C2_AlwaysIncluded ==
    \A d \in PostedPayloads :
        /\ PayloadKeys \ OptionalKeys \subseteq DOMAIN d
        /\ d["type"] = form["property_type"]
        /\ d["bedroomCount"] = form["bedrooms"]
        /\ d["bathroomCount"] = form["bathrooms"]
        /\ d["habitableSurface"] = form["habitable_surface"]
        /\ d["province"] = form["province"]
        /\ d["postCode"] = form["postal_code"]
        /\ d["epcScore"] = form["epc_score"]
        /\ d["toiletCount"] = form["toilets"]
        /\ d["hasGarden"] = form["has_garden"]
        /\ d["hasTerrace"] = form["has_terrace"]
        /\ d["hasFireplace"] = form["has_fireplace"]
        /\ d["hasLivingRoom"] = form["has_living_room"]
        /\ d["hasAttic"] = form["has_attic"]
        /\ d["hasBasement"] = form["has_basement"]
        /\ d["hasOffice"] = form["has_office"]
        /\ d["hasDiningRoom"] = form["has_dining_room"]
        /\ d["hasDressingRoom"] = form["has_dressing_room"]
        /\ d["hasLift"] = form["has_lift"]
        /\ d["hasSwimmingPool"] = form["has_swimming_pool"]
        /\ d["hasAirConditioning"] = form["has_air_conditioning"]
        /\ d["hasArmoredDoor"] = form["has_armored_door"]
        /\ d["hasVisiophone"] = form["has_visiophone"]
        /\ d["hasHeatPump"] = form["has_heat_pump"]
        /\ d["hasPhotovoltaicPanels"] = form["has_photovoltaic"]

\* A submit of a form whose postal code was emptied.
C2_Witness ==
    /\ pc = "predict"
    /\ form["postal_code"] = PyStr("")
    /\ \E d \in PostedPayloads : d["postCode"] = PyStr("") /\ d["hasGarden"] = PyBool(FALSE)

\* C3: no payload handed to POST /predict has a key whose value is None.
C3_NoNullInPayload ==
    \A d \in PostedPayloads : \A k \in DOMAIN d : d[k].t # "NoneType"

\* A submit with both surfaces at 0: two placeholders were created and removed.
C3_Witness ==
    /\ pc = "predict"
    /\ PredictionDataLiteral(form)["terraceSurface"] = None
    /\ PredictionDataLiteral(form)["gardenSurface"] = None
    /\ \E d \in PostedPayloads : DOMAIN d = PayloadKeys \ OptionalKeys

\* C4: the health check is healthy only on status 200 (then with the parsed
\* body); on any other status and on any connection failure it is unhealthy
\* and carries a non-empty error detail.
C4_HealthContract ==
    health.set =>
        LET o == got.health IN
        /\ health.ok =>
              /\ o.t = "Response" /\ o.status_code = 200
              /\ Json(o.text).ok /\ health.data = Json(o.text).value
        /\ (o.t = "RequestException" \/ o.status_code # 200) =>
              /\ ~health.ok
              /\ health.data.t = "str" /\ health.data.v # ""

\* C5: predict succeeds iff the status is 200 (with the parsed body); a
\* non-200 answer gives "API Error: {status} - {body}"; a transport failure
\* gives a message starting with "Connection Error:".
C5_PredictContract ==
    prediction.set =>
        LET o == got.predict IN
        /\ prediction.ok <=> (o.t = "Response" /\ o.status_code = 200)
        /\ prediction.ok => Json(o.text).ok /\ prediction.data = Json(o.text).value
        /\ (o.t = "Response" /\ o.status_code # 200) =>
              prediction.data =
                  PyStr("API Error: " \o ToString(o.status_code) \o " - " \o o.text)
        /\ o.t = "RequestException" =>
              /\ prediction.data.t = "str"
              /\ StartsWith(prediction.data.v, "Connection Error:")

\* C6: a script run issues at most one GET /health and at most one POST
\* /predict; a failed call is reported at once (error rendered) with no
\* further request of its kind sent.
C6_NoRetry ==
    /\ Count("GET") <= 1
    /\ Count("POST") <= 1
    /\ (health.set /\ ~health.ok) => Count("GET") = 1 /\ sidebar.kind = "error"
    /\ (prediction.set /\ ~prediction.ok) =>
          Count("POST") = 1 /\ pc = "idle" /\ view.kind = "error"

\* A predict call that failed on a transport error.
C6_Witness ==
    /\ prediction.set /\ ~prediction.ok
    /\ got.predict.t = "RequestException"
    /\ Count("POST") = 1

\* C7: whatever the backend answers, a finished submission shows exactly one
\* of a rendered prediction and a rendered error message.
C7_ExactlyOneOutcome ==
    (pc = "idle" /\ trigger = "submit") => view.kind \in {"prediction", "error"}

C9_OptionalFields ==
    (pc = "idle" /\ prediction.set /\ prediction.ok) =>
        LET r == Json(got.predict.text).value IN
        /\ view.kind = "prediction" =>
              /\ view.currency = IF "currency" \in DOMAIN r.v
                                 THEN FormatStr(r.v["currency"]) ELSE "EUR"
              /\ "timestamp" \in DOMAIN r.v =>
                    view.completed_at = FormatStr(r.v["timestamp"])
              /\ "input_summary" \in DOMAIN r.v =>
                    view.summary_shown /\ view.input_summary = r.v["input_summary"]
        /\ (/\ r.t = "dict"
            /\ "predicted_price" \in DOMAIN r.v => r.v["predicted_price"].t = "int")
              => view.kind = "prediction"

\* A prediction rendered from a response with a timestamp and no currency.
C9_Witness ==
    /\ view.kind = "prediction"
    /\ got.predict.text = "{\"predicted_price\": 99, \"timestamp\": \"2025-06-01T12:00:00\"}"
    /\ view.currency = "EUR"
    /\ view.completed_at = "2025-06-01T12:00:00"
    /\ ~view.summary_shown

\* C10: every health check and every predict call that was started returns
\* to main(), and a call whose server stayed silent returns a failure.
C10_CallsReturn ==
    /\ \A r \in 1..MaxRuns : \A c \in Calls :
          (runs = r /\ pc = c) ~> (returned.run = r /\ returned.call = c)
    /\ [](returned.silent => ~returned.ok)

\* A predict call that ended on its timeout.
C10_Witness ==
    /\ returned.call = "predict"
    /\ returned.silent
    /\ ~returned.ok
    /\ pc = "idle"
    /\ view.kind = "error"

\* C11: every script run issues one GET /health, first of all its requests;
\* in a submit run the health check has returned before the POST /predict is
\* on the wire, and once it has returned the POST is sent whether or not it
\* reported the backend healthy.
C11_HealthThenPost ==
    /\ runs >= 1 => Count("GET") = 1 /\ wire[1].method = "GET"
    /\ Count("POST") >= 1 =>
          /\ trigger = "submit"
          /\ health.set /\ got.health.t # "NoCall"
          /\ returned.run = runs
          /\ wire[2].method = "POST"
    /\ (trigger = "submit" /\ health.set) => Count("POST") = 1

\* A submit whose POST is in flight although the health check of the same
\* run came back with status 503.
C11_Witness ==
    /\ pc = "predict"
    /\ trigger = "submit"
    /\ got.health.t = "Response" /\ got.health.status_code = 503
    /\ ~health.ok
    /\ Len(wire) = 2 /\ wire[1].method = "GET" /\ wire[2].method = "POST"

=============================================================================
